---- MODULE Spec2Model ----
(***************************************************************************)
(* Connection lifecycle of adonisjs-mongoose: the ConnectionManager        *)
(* registry, the Connection wrapper around one mongoose handle, and the    *)
(* Database facade.                                                        *)
(*                                                                         *)
(* Execution model: one JavaScript event loop.  Every action is one        *)
(* synchronous run-to-completion segment: the synchronous prefix of an API *)
(* call (up to its first await on a pending promise), the continuation of  *)
(* an await, or one driver/timer callback.  Driver and timer callbacks are *)
(* macrotasks, and so are the application's API calls (request handlers,   *)
(* timers, a test body): each runs after the promise continuations queued  *)
(* by the previous one have run.  An action is therefore one callback or   *)
(* call prefix together with the continuations it makes runnable.          *)
(*                                                                         *)
(* Connection.config is read only by #validateConfig and                   *)
(* #buildConnectionUri; the model validates the node's config at           *)
(* construction and does not copy it into the Connection record.           *)
(***************************************************************************)
EXTENDS Integers, Sequences, FiniteSets, TLC

\* ---------------------------------------------------------------- bounds
\* Number of Connection objects that may be alive at the same time.  A
\* Connection nothing refers to any more and whose handle is gone is garbage:
\* its slot is reused, as the memory of a collected object is.
MaxConns == 2
\* Model objects the mapper library compiles in one run.
MaxModels == 3

Slots == 1..MaxConns

\* ------------------------------------------------------------ input data
Names == {"primary", "secondary"}

NameOrder == <<"primary", "secondary">>

\* MongooseConnectionConfig, reduced to the fields #validateConfig reads.
cfgUri == [uri |-> TRUE, connection |-> FALSE, host |-> FALSE, database |-> FALSE]

cfgHost == [uri |-> FALSE, connection |-> TRUE, host |-> TRUE, database |-> TRUE]

cfgBad == [uri |-> FALSE, connection |-> TRUE, host |-> TRUE, database |-> FALSE]

Configs == {cfgUri, cfgHost, cfgBad}

\* Database configurations the facade is constructed with.
DatabaseConfigs ==
  { [connection |-> "primary", connections |-> [n \in {"primary"} |-> cfg]] :
      cfg \in {cfgUri} }

VARIABLES
  connections,          \* ConnectionManager.connections : name -> ConnectionNode
  orphanConnections,    \* ConnectionManager.#orphanConnections (Connection ids)
  conns,                \* the Connection objects alive, by slot
  awaits,               \* calls awaiting a pending Connection.disconnect()
  config,               \* Database.config
  primaryConnectionName,\* Database.primaryConnectionName
  emitted,              \* events the last step sent to the application emitter
  models,               \* BaseModel.modelCache and the models the mapper compiled
  last                  \* the last step: operation, arguments, outcome

vars == <<connections, orphanConnections, conns, awaits,
          config, primaryConnectionName, emitted, models, last>>

\* The names the application registers: those of its configuration.  It may
\* ask connect and Database.connection for any name, configured or not.
KnownNames == DOMAIN config.connections

ConnIds == {c \in Slots : conns[c].state # "free"}

Step(op, name, conn, result) ==
  [op |-> op, name |-> name, conn |-> conn, result |-> result]

\* --------------------------------------------------------------- BaseModel
\* The application's model classes: static connection (undefined: the primary
\* connection) and whether a static schema is defined.
ModelClasses ==
  { [name |-> "User", connection |-> "undefined", schema |-> TRUE],
    [name |-> "Post", connection |-> "primary", schema |-> TRUE],
    [name |-> "Log", connection |-> "secondary", schema |-> TRUE],
    [name |-> "Draft", connection |-> "undefined", schema |-> FALSE] }

\* A compiled model: the id-th object the mapper library made, for a class,
\* bound to the handle of Connection conn.
NoModel == [id |-> 0, class |-> "", conn |-> 0]

\* BaseModel.modelCache = new Map(); nothing compiled, nothing returned yet.
\* registry is the models the library keeps on live handles (handle.models).
NoModels ==
  [cache |-> [k \in {} |-> NoModel], registry |-> {}, made |-> 0,
   returned |-> NoModel]

\* The handle of a Connection that is gone takes its models with it.
Prune(ms, cs) == [ms EXCEPT !.registry = {m \in @ : cs[m.conn].state # "free"}]

\* ------------------------------------------------------- Connection class
\* Faulty variant: #validateConfig that accepts a connection block without
\* a database.
validateConfig_hostOnly(cfg) ==
  IF ~cfg.uri /\ ~cfg.connection THEN FALSE
  ELSE IF cfg.connection /\ ~cfg.uri
       THEN IF ~cfg.host THEN FALSE ELSE TRUE
       ELSE TRUE

\* Connection.#validateConfig: TRUE iff the constructor does not throw.
validateConfig(cfg) ==
  IF ~cfg.uri /\ ~cfg.connection THEN FALSE
  ELSE IF cfg.connection /\ ~cfg.uri
       THEN IF ~cfg.host \/ ~cfg.database THEN FALSE ELSE TRUE
       ELSE TRUE

\* new Connection(name, config, logger): #state idle, no handle.
\* old is a handle that connect() replaced in #connection while it was
\* still up; its listeners stay attached.
NewConnection(name) ==
  [name |-> name, state |-> "idle", handle |-> "none", closeReq |-> FALSE,
   connect |-> "none", old |-> "none"]

\* A slot that holds no Connection.
FreeConn ==
  [name |-> "", state |-> "free", handle |-> "none", closeReq |-> FALSE,
   connect |-> "none", old |-> "none"]

\* A handle that can still report: connecting, open or closing.
HandleUp(h) == h \in {"connecting", "connected", "disconnecting"}

\* Synchronous prefix of Connection.connect(): no-op when connected or
\* connecting, otherwise the handle is created and the promise is pending.
Connection_connect(c) ==
  IF c.state = "connected" \/ c.state = "connecting" THEN c
  ELSE [c EXCEPT !.state = "connecting", !.handle = "connecting",
                 !.closeReq = FALSE, !.connect = "waiting",
                 !.old = IF HandleUp(c.handle) THEN c.handle ELSE @]

\* Connection.disconnect() returns at once (line 202-204).
DisconnectIsNoop(c) == c.handle = "none" \/ c.state = "disconnected"

\* handle.close() has nothing to wait for: the handle is down already.
CloseIsImmediate(c) == c.handle = "disconnected"

\* Synchronous prefix of Connection.disconnect(): #state and handle.close().
\* close() on an open handle starts closing; on a connecting handle it is
\* deferred until the handle opens or fails.
Connection_disconnect(c) ==
  IF DisconnectIsNoop(c) THEN c
  ELSE [c EXCEPT !.state = "disconnecting",
                 !.handle = IF @ = "connected" THEN "disconnecting" ELSE @,
                 !.closeReq = IF c.handle = "connecting" THEN TRUE ELSE @]

\* Faulty variant: disconnect() that does not clear the stored handle.
Connection_disconnected_keepsHandle(c) == [c EXCEPT !.state = "disconnected"]

\* Continuation of Connection.disconnect() once handle.close() resolved.
Connection_disconnected(c) == [c EXCEPT !.handle = "none", !.state = "disconnected"]

\* Connection.connection getter: the handle exists.
HasHandle(c) == c.handle # "none"

\* ----------------------------------------------------- ConnectionManager
\* The mutable world one synchronous segment works on.
Cur ==
  [connections |-> connections, orphanConnections |-> orphanConnections,
   conns |-> conns, awaits |-> awaits, emitted |-> <<>>]

\* The manager does not refer to Connection c any more and its handle will
\* never report again.
Unreferenced(w, c) ==
  /\ w.conns[c].state # "free"
  /\ w.conns[c].handle \in {"none", "disconnected"}
  /\ w.conns[c].old = "none"
  /\ w.conns[c].connect = "settled"
  /\ c \notin w.orphanConnections
  /\ \A n \in DOMAIN w.connections : w.connections[n].connection # c
  /\ \A a \in w.awaits : a.conn # c

\* Nothing refers to Connection c or its handle: no cached model is bound to it.
Garbage(w, c) ==
  /\ Unreferenced(w, c)
  /\ \A k \in DOMAIN models.cache : models.cache[k].conn # c

Collect(w) ==
  [w EXCEPT !.conns = [c \in Slots |-> IF Garbage(w, c) THEN FreeConn ELSE @[c]]]

Commit(w) ==
  /\ connections' = Collect(w).connections
  /\ orphanConnections' = Collect(w).orphanConnections
  /\ conns' = Collect(w).conns
  /\ awaits' = Collect(w).awaits
  /\ emitted' = Collect(w).emitted

hasW(w, name) == name \in DOMAIN w.connections

\* Faulty variant: isConnected that also counts a node that is connecting.
isConnectedW_countsConnecting(w, name) ==
  IF ~hasW(w, name) THEN FALSE
  ELSE w.connections[name].connection # 0
       /\ w.connections[name].state \in {"open", "connecting"}

isConnectedW(w, name) ==
  IF ~hasW(w, name) THEN FALSE
  ELSE w.connections[name].connection # 0 /\ w.connections[name].state = "open"

has(name) == hasW(Cur, name)

isConnected(name) == isConnectedW(Cur, name)

DeleteName(reg, name) == [m \in DOMAIN reg \ {name} |-> reg[m]]

SetName(reg, name, node) ==
  [m \in DOMAIN reg \cup {name} |-> IF m = name THEN node ELSE reg[m]]

Emit(w, type, name) == [w EXCEPT !.emitted = Append(@, <<type, name>>)]

\* Faulty variant: #handleConnect that emits without looking for the node.
handleConnect_alwaysEmits(w, c) ==
  LET name == w.conns[c].name IN
  IF ~hasW(w, name) THEN Emit(w, "connect", name)
  ELSE [Emit(w, "connect", name) EXCEPT !.connections[name].state = "open"]

handleConnect(w, c) ==
  LET name == w.conns[c].name IN
  IF ~hasW(w, name) THEN w
  ELSE [Emit(w, "connect", name) EXCEPT !.connections[name].state = "open"]

\* Faulty variant: #handleDisconnect without the orphan branch.
handleDisconnect_noOrphanBranch(w, c) ==
  LET name == w.conns[c].name IN
  IF ~hasW(w, name) THEN w
  ELSE [Emit(w, "disconnect", name) EXCEPT
          !.connections[name].connection = 0,
          !.connections[name].state = "closed"]

\* Faulty variant: #handleDisconnect that drops the node of a lost connection.
handleDisconnect_deletesNode(w, c) ==
  LET name == w.conns[c].name IN
  IF c \in w.orphanConnections
  THEN [Emit(w, "disconnect", name) EXCEPT !.orphanConnections = @ \ {c}]
  ELSE IF ~hasW(w, name) THEN w
  ELSE [Emit(w, "disconnect", name) EXCEPT
          !.connections = [m \in DOMAIN @ \ {name} |-> @[m]]]

\* Faulty variant: #handleDisconnect that keeps the connection reference.
handleDisconnect_keepsReference(w, c) ==
  LET name == w.conns[c].name IN
  IF c \in w.orphanConnections
  THEN [Emit(w, "disconnect", name) EXCEPT !.orphanConnections = @ \ {c}]
  ELSE IF ~hasW(w, name) THEN w
  ELSE [Emit(w, "disconnect", name) EXCEPT !.connections[name].state = "closed"]

handleDisconnect(w, c) ==
  LET name == w.conns[c].name IN
  IF c \in w.orphanConnections
  THEN [Emit(w, "disconnect", name) EXCEPT !.orphanConnections = @ \ {c}]
  ELSE IF ~hasW(w, name) THEN w
  ELSE [Emit(w, "disconnect", name) EXCEPT
          !.connections[name].connection = 0,
          !.connections[name].state = "closed"]

\* Faulty variant: #handleError that also marks the node closed.
handleError_closesNode(w, c) ==
  LET name == w.conns[c].name IN
  IF ~hasW(w, name) THEN Emit(w, "error", name)
  ELSE [Emit(w, "error", name) EXCEPT !.connections[name].state = "closed"]

handleError(w, c) == Emit(w, "error", w.conns[c].name)

\* Connection.#monitorConnection handlers, followed by the manager's.
onConnected(w, c) == handleConnect([w EXCEPT !.conns[c].state = "connected"], c)

onDisconnected(w, c) ==
  handleDisconnect([w EXCEPT !.conns[c].state = "disconnected"], c)

\* Faulty variant: add without the has(name) check, the last registration wins.
addW_overwrites(w, name, cfg) ==
  [w EXCEPT !.connections =
     SetName(@, name, [config |-> cfg, state |-> "registered", connection |-> 0])]

\* Faulty variant: add that connects eagerly.
addW_eager(w, name, cfg) ==
  IF hasW(w, name) THEN w
  ELSE IF w.conns[1].state = "free" /\ validateConfig(cfg)
  THEN [w EXCEPT !.connections =
          SetName(@, name, [config |-> cfg, state |-> "connecting", connection |-> 1]),
                 !.conns[1] = Connection_connect(NewConnection(name))]
  ELSE [w EXCEPT !.connections =
          SetName(@, name, [config |-> cfg, state |-> "registered", connection |-> 0])]

addW(w, name, cfg) ==
  IF hasW(w, name) THEN w
  ELSE [w EXCEPT !.connections =
          SetName(@, name, [config |-> cfg, state |-> "registered", connection |-> 0])]

\* The slot a newly constructed Connection takes.
FreeSlot(w) ==
  IF \E c \in Slots : w.conns[c].state = "free"
  THEN CHOOSE c \in Slots :
         /\ w.conns[c].state = "free"
         /\ \A d \in Slots : w.conns[d].state = "free" => c <= d
  ELSE 0

\* Faulty variant: connect(name) without the "not registered" check.
connectResult_noRegistryCheck(w, name) ==
  IF isConnectedW(w, name) THEN "already_connected"
  ELSE IF hasW(w, name) /\ ~validateConfig(w.connections[name].config)
  THEN "invalid_config"
  ELSE "pending"

\* Faulty variant: connect(name) without the "already connected" check.
connectResult_noConnectedCheck(w, name) ==
  IF ~hasW(w, name) THEN "not_registered"
  ELSE IF ~validateConfig(w.connections[name].config) THEN "invalid_config"
  ELSE "pending"

\* Outcome of the synchronous prefix of connect(name).
connectResult(w, name) ==
  IF ~hasW(w, name) THEN "not_registered"
  ELSE IF isConnectedW(w, name) THEN "already_connected"
  ELSE IF ~validateConfig(w.connections[name].config) THEN "invalid_config"
  ELSE "pending"

\* Synchronous prefix of connect(name): up to the await on the new
\* Connection's connect().  The constructor throws after the node was marked
\* connecting and before the connection reference is assigned.
connectW(w, name) ==
  LET r == connectResult(w, name) IN
  IF r = "not_registered" \/ r = "already_connected" THEN w
  ELSE IF r = "invalid_config"
  THEN [w EXCEPT !.connections[name].state = "connecting"]
  ELSE LET c == FreeSlot(w) IN
       [w EXCEPT !.connections[name].state = "connecting",
                 !.connections[name].connection = c,
                 !.conns[c] = Connection_connect(NewConnection(name))]

\* The bound on Connections alive at once.
CanConstruct(w, name) ==
  connectResult(w, name) = "pending" => FreeSlot(w) # 0

\* A call suspended on Connection c's disconnect(): patch's fire-and-forget
\* call, or close(name, rel), on behalf of closeAll when all is set.
Waiter(kind, name, rel, all, c) ==
  [kind |-> kind, name |-> name, release |-> rel, all |-> all, conn |-> c]

RECURSIVE closeW(_, _, _, _)
RECURSIVE closeReturnW(_, _, _, _)
RECURSIVE releaseW(_, _, _)
\* close(name, rel) up to its await on a pending disconnect.  When the
\* disconnect is a no-op or has nothing to wait for, the call runs on.
closeW(w, name, rel, all) ==
  IF isConnectedW(w, name)
  THEN LET c == w.connections[name].connection
           w1 == [w EXCEPT !.connections[name].state = "closing"]
       IN IF DisconnectIsNoop(w1.conns[c])
          THEN closeReturnW(w1, name, rel, all)
          ELSE IF CloseIsImmediate(w1.conns[c])
          THEN closeReturnW(
                 [w1 EXCEPT !.conns[c] = Connection_disconnected(Connection_disconnect(@))],
                 name, rel, all)
          ELSE [w1 EXCEPT !.conns[c] = Connection_disconnect(@),
                          !.awaits = @ \cup {Waiter("close", name, rel, all, c)}]
  ELSE closeReturnW(w, name, rel, all)

\* Faulty variant: close that forgets its release argument.
closeReturnW_noRelease(w, name, rel, all) == w

\* close(name, rel) after its disconnect: release when asked to.
closeReturnW(w, name, rel, all) ==
  IF rel THEN releaseW(w, name, all) ELSE w

\* Faulty variant: release that only removes a name it had to close.
releaseW_onlyConnected(w, name, all) ==
  IF isConnectedW(w, name) THEN closeW(w, name, TRUE, all) ELSE w

\* release(name); all says whether a closeAll waits for it.
releaseW(w, name, all) ==
  IF isConnectedW(w, name) THEN closeW(w, name, TRUE, all)
  ELSE [w EXCEPT !.connections = DeleteName(@, name)]

\* patch's connection.disconnect().catch(log): nothing awaits it but the log.
orphanDisconnectW(w, name, c) ==
  IF DisconnectIsNoop(w.conns[c]) THEN w
  ELSE IF CloseIsImmediate(w.conns[c])
  THEN [w EXCEPT !.conns[c] = Connection_disconnected(Connection_disconnect(@))]
  ELSE [w EXCEPT !.conns[c] = Connection_disconnect(@),
                 !.awaits = @ \cup {Waiter("patch", name, FALSE, FALSE, c)}]

\* Faulty variant: patch that ignores a name it does not know.
patchW_knownOnly(w, name, cfg) ==
  IF ~hasW(w, name) THEN w
  ELSE LET c == w.connections[name].connection
           w1 == IF c # 0
                 THEN orphanDisconnectW([w EXCEPT !.orphanConnections = @ \cup {c}],
                                        name, c)
                 ELSE w
       IN [w1 EXCEPT !.connections[name].state = "registered",
                     !.connections[name].config = cfg,
                     !.connections[name].connection = 0]

\* Faulty variant: patch that forgets to reset the node's state.
patchW_keepsState(w, name, cfg) ==
  IF ~hasW(w, name) THEN addW(w, name, cfg)
  ELSE LET c == w.connections[name].connection
           w1 == IF c # 0
                 THEN orphanDisconnectW([w EXCEPT !.orphanConnections = @ \cup {c}],
                                        name, c)
                 ELSE w
       IN [w1 EXCEPT !.connections[name].config = cfg,
                     !.connections[name].connection = 0]

\* Faulty variant: patch that forgets to delete the connection reference.
patchW_keepsConnection(w, name, cfg) ==
  IF ~hasW(w, name) THEN addW(w, name, cfg)
  ELSE LET c == w.connections[name].connection
           w1 == IF c # 0
                 THEN orphanDisconnectW([w EXCEPT !.orphanConnections = @ \cup {c}],
                                        name, c)
                 ELSE w
       IN [w1 EXCEPT !.connections[name].state = "registered",
                     !.connections[name].config = cfg]

patchW(w, name, cfg) ==
  IF ~hasW(w, name) THEN addW(w, name, cfg)
  ELSE LET c == w.connections[name].connection
           w1 == IF c # 0
                 THEN orphanDisconnectW([w EXCEPT !.orphanConnections = @ \cup {c}],
                                        name, c)
                 ELSE w
       IN [w1 EXCEPT !.connections[name].state = "registered",
                     !.connections[name].config = cfg,
                     !.connections[name].connection = 0]

\* closeAll(rel): close(name, rel) for every key of the registry, in order.
RECURSIVE closeAllW(_, _, _)
closeAllW(w, names, rel) ==
  IF names = <<>> THEN w
  ELSE closeAllW(IF hasW(w, Head(names)) THEN closeW(w, Head(names), rel, TRUE) ELSE w,
                 Tail(names), rel)

\* A closeAll() promise is pending: some close(name) of it still is.
closeAllPending(w) == \E a \in w.awaits : a.all

closeAllRunning == closeAllPending(Cur)

\* ---------------------------------------------------- settled disconnects
\* The waiters on Connection c, in the order their continuations run.
Rank(a) ==
  IF a.kind = "patch" THEN 0
  ELSE 1 + (IF a.release THEN 2 ELSE 0) + (IF a.all THEN 1 ELSE 0)

RECURSIVE InOrder(_)
InOrder(ws) ==
  IF ws = {} THEN <<>>
  ELSE LET a == CHOOSE x \in ws : \A y \in ws : Rank(x) <= Rank(y)
       IN <<a>> \o InOrder(ws \ {a})

RECURSIVE RunReturns(_, _)
RunReturns(w, todo) ==
  IF todo = <<>> THEN w
  ELSE RunReturns(IF Head(todo).kind = "close"
                  THEN closeReturnW(w, Head(todo).name, Head(todo).release, Head(todo).all)
                  ELSE w,
                  Tail(todo))

WaitersOn(w, c) == {a \in w.awaits : a.conn = c}

\* handle.close() of Connection c resolved: Connection.disconnect() stores
\* the result and every call awaiting it continues.
DisconnectResolvedW(w, c) ==
  IF WaitersOn(w, c) = {} THEN w
  ELSE RunReturns([w EXCEPT !.awaits = @ \ WaitersOn(w, c),
                            !.conns[c] = Connection_disconnected(@)],
                  InOrder(WaitersOn(w, c)))

\* Faulty variant: a catch handler in patch that puts the orphan back.
DisconnectRejectedW_restores(w, c) ==
  [w EXCEPT !.awaits = @ \ WaitersOn(w, c),
            !.connections = [n \in DOMAIN @ |->
               IF \E a \in WaitersOn(w, c) : a.kind = "patch" /\ a.name = n
               THEN [@[n] EXCEPT !.connection = c] ELSE @[n]]]

\* handle.close() of Connection c rejected: every call awaiting it rejects
\* (patch logs), and a closeAll() among them rejects with it, leaving the
\* other close(name) calls to finish on their own.
DisconnectRejectedW(w, c) ==
  LET failsAll == \E a \in WaitersOn(w, c) : a.all IN
  [w EXCEPT !.awaits = { IF failsAll THEN [a EXCEPT !.all = FALSE] ELSE a
                         : a \in @ \ WaitersOn(w, c) }]

\* ------------------------------------------------------------- Database
\* Database.#registerConnections: add() for every configured entry.
RECURSIVE registerConnections(_, _, _)
registerConnections(w, names, cfg) ==
  IF names = <<>> THEN w
  ELSE registerConnections(
         IF Head(names) \in DOMAIN cfg.connections
         THEN addW(w, Head(names), cfg.connections[Head(names)])
         ELSE w,
         Tail(names), cfg)

\* new ConnectionManager(logger, emitter).
EmptyWorld ==
  [connections |-> [n \in {} |-> 0], orphanConnections |-> {},
   conns |-> [c \in Slots |-> FreeConn], awaits |-> {}, emitted |-> <<>>]

\* Faulty variant: Database.connection that never starts a connect.
dbConnectionW_neverConnects(w, name) == w

\* Faulty variant: Database.connection that registers a name it does not know.
dbConnectionW_autoAdd(w, name) ==
  IF ~hasW(w, name) THEN addW(w, name, cfgUri)
  ELSE IF ~isConnectedW(w, name) THEN connectW(w, name) ELSE w

\* Database.connection(name): the world after the fire-and-forget connect.
dbConnectionW(w, name) ==
  IF hasW(w, name) /\ ~isConnectedW(w, name) THEN connectW(w, name) ELSE w

\* Database.connection(name): what the caller gets.
dbConnectionResult(w, name) ==
  IF ~hasW(w, name) THEN "not_configured"
  ELSE LET w1 == dbConnectionW(w, name)
           c == w1.connections[name].connection
       IN IF c = 0 THEN "not_ready"
          ELSE IF ~HasHandle(w1.conns[c]) THEN "not_established"
          ELSE "handle"

\* new Database(config, logger, emitter)
InitWith(cfg) ==
  /\ config = cfg
  /\ primaryConnectionName = cfg.connection
  /\ connections = registerConnections(EmptyWorld, NameOrder, cfg).connections
  /\ orphanConnections = {}
  /\ conns = [c \in Slots |-> FreeConn]
  /\ awaits = {}
  /\ emitted = <<>>
  /\ models = NoModels
  /\ last = Step("new Database", "", 0, "ok")

Init == \E cfg \in DatabaseConfigs : InitWith(cfg)

\* ------------------------------------------------------------- API calls
add(name, cfg) ==
  /\ Commit(addW(Cur, name, cfg))
  /\ last' = Step("add", name, 0, "ok")
  /\ UNCHANGED <<config, primaryConnectionName>>
  /\ models' = Prune(models, conns')

connect(name) ==
  /\ CanConstruct(Cur, name)
  /\ Commit(connectW(Cur, name))
  /\ last' = Step("connect", name,
                  IF connectResult(Cur, name) = "pending" THEN FreeSlot(Cur) ELSE 0,
                  connectResult(Cur, name))
  /\ UNCHANGED <<config, primaryConnectionName>>
  /\ models' = Prune(models, conns')

patch(name, cfg) ==
  /\ Commit(patchW(Cur, name, cfg))
  /\ last' = Step("patch", name, IF has(name) THEN connections[name].connection ELSE 0,
                  IF ~has(name) THEN "added"
                  ELSE IF isConnected(name) THEN "was_connected" ELSE "ok")
  /\ UNCHANGED <<config, primaryConnectionName>>
  /\ models' = Prune(models, conns')

close(name, rel) ==
  /\ Commit(closeW(Cur, name, rel, FALSE))
  /\ last' = Step(IF rel THEN "close+release" ELSE "close", name, 0,
                  IF \E a \in closeW(Cur, name, rel, FALSE).awaits :
                       a.kind = "close" /\ a.name = name /\ ~a.all /\ a \notin awaits
                  THEN "pending" ELSE "resolved")
  /\ UNCHANGED <<config, primaryConnectionName>>
  /\ models' = Prune(models, conns')

release(name) ==
  /\ Commit(releaseW(Cur, name, FALSE))
  /\ last' = Step("release", name, 0,
                  IF \E a \in releaseW(Cur, name, FALSE).awaits :
                       a.kind = "close" /\ a.name = name /\ ~a.all /\ a \notin awaits
                  THEN "pending" ELSE "resolved")
  /\ UNCHANGED <<config, primaryConnectionName>>
  /\ models' = Prune(models, conns')

\* One closeAll() at a time: the shutdown hook runs once.
closeAll(rel) ==
  /\ ~closeAllRunning
  /\ Commit(closeAllW(Cur, NameOrder, rel))
  /\ last' = Step(IF rel THEN "closeAll+release" ELSE "closeAll", "", 0,
                  IF closeAllPending(closeAllW(Cur, NameOrder, rel))
                  THEN "pending" ELSE "resolved")
  /\ UNCHANGED <<config, primaryConnectionName>>
  /\ models' = Prune(models, conns')

\* The default parameter of Database.connection: connectionName =
\* this.primaryConnectionName when the argument is undefined.
resolveName(arg) == IF arg = "undefined" THEN primaryConnectionName ELSE arg

\* Database.connection(arg); "undefined" takes the default parameter.
dbConnection(arg) ==
  LET name == resolveName(arg)
      w1 == dbConnectionW(Cur, name)
      r == dbConnectionResult(Cur, name)
  IN /\ has(name) /\ ~isConnected(name) => CanConstruct(Cur, name)
     /\ Commit(w1)
     /\ last' = Step("Database.connection", name,
                     IF r = "handle" THEN w1.connections[name].connection ELSE 0, r)
     /\ UNCHANGED <<config, primaryConnectionName>>
     /\ models' = Prune(models, conns')

\* this.connection || this.$db.primaryConnectionName
connectionNameOf(cls) ==
  IF cls.connection = "undefined" THEN primaryConnectionName ELSE cls.connection

\* `${connectionName}:${this.name}`
cacheKey(cls) == <<connectionNameOf(cls), cls.name>>

\* connection.model(this.name, this.schema, collectionName) on the handle of
\* Connection c.  The mapper library decides what it hands back: a model it
\* compiles now, or the one it has already registered under that name on
\* that handle.
LibraryModel(ms, c, cls) ==
  { [id |-> ms.made + 1, class |-> cls.name, conn |-> c] }
    \cup { m \in ms.registry : m.conn = c /\ m.class = cls.name }

\* The library's registry after it handed back m on the handle of m.conn.
Registered(ms, m) ==
  { r \in ms.registry : ~(r.conn = m.conn /\ r.class = m.class) } \cup {m}

\* Faulty variant: getModel that compiles without looking at the cache.
getModelHit_never(ms, cls) == FALSE

\* this.modelCache.has(cacheKey)
getModelHit(ms, cls) == cacheKey(cls) \in DOMAIN ms.cache

\* modelCache.set(cacheKey, model) after the library handed back m.
getModelStore(ms, cls, m) ==
  [cache |-> [k \in DOMAIN ms.cache \cup {cacheKey(cls)} |->
                IF k = cacheKey(cls) THEN m ELSE ms.cache[k]],
   registry |-> Registered(ms, m),
   made |-> IF m.id > ms.made THEN m.id ELSE ms.made,
   returned |-> m]

\* Faulty variant: getModel that reserves its cache entry before it fails.
getModelThrows_reservesKey(ms, cls) ==
  [ms EXCEPT !.returned = NoModel,
             !.cache = [k \in DOMAIN @ \cup {cacheKey(cls)} |->
                          IF k = cacheKey(cls) THEN NoModel ELSE @[k]]]

\* getModel() throws (no schema, or getConnection() throws): nothing is
\* returned and modelCache.set is not reached.
getModelThrows(ms, cls) == [ms EXCEPT !.returned = NoModel]

\* BaseModel.getModel() of class cls: the schema check, the cache, then
\* getConnection() (Database.connection with its fire-and-forget connect)
\* and the library's model().
getModel(cls) ==
  LET name == connectionNameOf(cls)
      w1 == dbConnectionW(Cur, name)
      r == dbConnectionResult(Cur, name)
      c == w1.connections[name].connection
  IN
  IF ~cls.schema
  THEN /\ Commit(Cur)
       /\ models' = Prune(getModelThrows(models, cls), conns')
       /\ last' = Step("getModel", cls.name, 0, "no_schema")
       /\ UNCHANGED <<config, primaryConnectionName>>
  ELSE IF getModelHit(models, cls)
  THEN /\ Commit(Cur)
       /\ models' = [Prune(models, conns') EXCEPT !.returned = models.cache[cacheKey(cls)]]
       /\ last' = Step("getModel", cls.name, models.cache[cacheKey(cls)].conn, "cached")
       /\ UNCHANGED <<config, primaryConnectionName>>
  ELSE IF r # "handle"
  THEN /\ has(name) /\ ~isConnected(name) => CanConstruct(Cur, name)
       /\ Commit(w1)
       /\ models' = Prune(getModelThrows(models, cls), conns')
       /\ last' = Step("getModel", cls.name, 0, r)
       /\ UNCHANGED <<config, primaryConnectionName>>
  ELSE /\ ~isConnected(name) => CanConstruct(Cur, name)
       /\ models.made < MaxModels
       /\ \E m \in LibraryModel(models, c, cls) :
            /\ Commit(w1)
            /\ models' = Prune(getModelStore(models, cls, m), conns')
            /\ last' = Step("getModel", cls.name, c, "compiled")
       /\ UNCHANGED <<config, primaryConnectionName>>

\* BaseModel.clearCache(): this.modelCache.clear().  Connections that only
\* a cached model kept alive go with it.
clearCache ==
  /\ connections' = connections
  /\ orphanConnections' = orphanConnections
  /\ awaits' = awaits
  /\ emitted' = <<>>
  /\ conns' = [c \in Slots |-> IF Unreferenced(Cur, c) THEN FreeConn ELSE conns[c]]
  /\ models' = Prune([models EXCEPT !.cache = NoModels.cache, !.returned = NoModel], conns')
  /\ last' = Step("clearCache", "", 0, "ok")
  /\ UNCHANGED <<config, primaryConnectionName>>

\* The application calls connect() on the Connection of a node it got from
\* manager.get(name); a call that creates a handle comes after the connect()
\* before it has settled.
connectionConnect(c) ==
  /\ has(conns[c].name) /\ connections[conns[c].name].connection = c
  /\ conns[c].connect = "settled" \/ Connection_connect(conns[c]) = conns[c]
  /\ ~(HandleUp(conns[c].handle) /\ conns[c].old # "none")
  /\ Commit([Cur EXCEPT !.conns[c] = Connection_connect(@)])
  /\ last' = Step("Connection.connect", conns[c].name, c,
                  IF Connection_connect(conns[c]) = conns[c] THEN "noop" ELSE "pending")
  /\ UNCHANGED <<config, primaryConnectionName>>
  /\ models' = Prune(models, conns')

\* --------------------------------------------------- driver and the timer
\* What the step settled, for the caller that was awaiting it.
Settled(w, w1, c, connectOutcome) ==
  IF closeAllPending(w) /\ ~closeAllPending(w1)
  THEN (IF \E a \in WaitersOn(w, c) : a.all /\ w.conns[c].handle = "disconnecting"
           /\ w1.conns[c].handle = "disconnecting"
        THEN "closeAll rejected" ELSE "closeAll resolved")
  ELSE IF w.conns[c].connect = "waiting" THEN connectOutcome
  ELSE ""

\* The handle opens: 'connected' is relayed, asPromise() resolves and with it
\* Connection.connect() and connect(name); a close() that was waiting for the
\* handle starts closing it.
DriverOpenW(w, c) ==
  LET w1 == onConnected([w EXCEPT !.conns[c].handle = "connected"], c) IN
  [w1 EXCEPT !.conns[c].connect = "settled",
             !.conns[c].handle = IF w.conns[c].closeReq THEN "disconnecting" ELSE @,
             !.conns[c].closeReq = FALSE]

DriverOpen(c) ==
  /\ conns[c].handle = "connecting"
  /\ Commit(DriverOpenW(Cur, c))
  /\ last' = Step("driver connected", conns[c].name, c,
                  Settled(Cur, DriverOpenW(Cur, c), c, "connect resolved"))
  /\ UNCHANGED <<config, primaryConnectionName>>
  /\ models' = Prune(models, conns')

\* The handshake fails: the handle goes to disconnected ('disconnected' is
\* relayed), asPromise() rejects, the catch block of Connection.connect()
\* sets #state and connect(name) rejects; a close() that was waiting for the
\* handle finds nothing to close and resolves.
DriverConnectFailW(w, c) ==
  LET w1 == onDisconnected([w EXCEPT !.conns[c].handle = "disconnected"], c) IN
  DisconnectResolvedW([w1 EXCEPT !.conns[c].connect = "settled",
                                 !.conns[c].state = IF w.conns[c].connect = "waiting"
                                                    THEN "disconnected" ELSE @,
                                 !.conns[c].closeReq = FALSE], c)

DriverConnectFail(c) ==
  /\ conns[c].handle = "connecting"
  /\ Commit(DriverConnectFailW(Cur, c))
  /\ last' = Step("driver connect failed", conns[c].name, c,
                  Settled(Cur, DriverConnectFailW(Cur, c), c, "connect rejected"))
  /\ UNCHANGED <<config, primaryConnectionName>>
  /\ models' = Prune(models, conns')

\* The 30 s timer of Connection.connect() fires first: the catch block sets
\* #state and connect(name) rejects; the handle keeps connecting.
ConnectTimeoutW(w, c) ==
  [w EXCEPT !.conns[c].connect = "settled", !.conns[c].state = "disconnected"]

ConnectTimeout(c) ==
  /\ conns[c].connect = "waiting"
  /\ Commit(ConnectTimeoutW(Cur, c))
  /\ last' = Step("connect timer", conns[c].name, c, "connect rejected")
  /\ UNCHANGED <<config, primaryConnectionName>>
  /\ models' = Prune(models, conns')

\* An open handle loses its link without close() having been called.
DriverDropW(w, c) == onDisconnected([w EXCEPT !.conns[c].handle = "disconnected"], c)

DriverDrop(c) ==
  /\ conns[c].handle = "connected"
  /\ Commit(DriverDropW(Cur, c))
  /\ last' = Step("driver dropped", conns[c].name, c, "")
  /\ UNCHANGED <<config, primaryConnectionName>>
  /\ models' = Prune(models, conns')

\* handle.close() completes: 'disconnected' is relayed, close() resolves.
DriverClosedW(w, c) ==
  DisconnectResolvedW(
    onDisconnected([w EXCEPT !.conns[c].handle = "disconnected"], c), c)

DriverClosed(c) ==
  /\ conns[c].handle = "disconnecting"
  /\ Commit(DriverClosedW(Cur, c))
  /\ last' = Step("driver closed", conns[c].name, c,
                  Settled(Cur, DriverClosedW(Cur, c), c, ""))
  /\ UNCHANGED <<config, primaryConnectionName>>
  /\ models' = Prune(models, conns')

\* handle.close() rejects: no event, the handle stays as it is.
DriverCloseFail(c) ==
  /\ conns[c].handle = "disconnecting"
  /\ WaitersOn(Cur, c) # {}
  /\ Commit(DisconnectRejectedW(Cur, c))
  /\ last' = Step("driver close failed", conns[c].name, c,
                  Settled(Cur, DisconnectRejectedW(Cur, c), c, ""))
  /\ UNCHANGED <<config, primaryConnectionName>>
  /\ models' = Prune(models, conns')

\* The handle reports an error: relayed, re-emitted by the manager.
DriverError(c) ==
  /\ conns[c].handle \in {"connecting", "connected", "disconnecting"}
  /\ Commit(handleError(Cur, c))
  /\ last' = Step("driver error", conns[c].name, c, "")
  /\ UNCHANGED <<config, primaryConnectionName>>
  /\ models' = Prune(models, conns')

\* A replaced handle opens: its 'connected' listener still runs.
OldDriverOpen(c) ==
  /\ conns[c].old = "connecting"
  /\ Commit(onConnected([Cur EXCEPT !.conns[c].old = "connected"], c))
  /\ last' = Step("old handle connected", conns[c].name, c, "")
  /\ UNCHANGED <<config, primaryConnectionName>>
  /\ models' = Prune(models, conns')

\* A replaced handle fails or drops: its 'disconnected' listener still runs.
OldDriverDown(c) ==
  /\ conns[c].old \in {"connecting", "connected"}
  /\ Commit(onDisconnected([Cur EXCEPT !.conns[c].old = "none"], c))
  /\ last' = Step("old handle disconnected", conns[c].name, c, "")
  /\ UNCHANGED <<config, primaryConnectionName>>
  /\ models' = Prune(models, conns')

Next ==
  \/ \E name \in KnownNames, cfg \in Configs : add(name, cfg)
  \/ \E name \in Names : connect(name)
  \/ \E name \in KnownNames, cfg \in Configs : patch(name, cfg)
  \/ \E name \in KnownNames, rel \in BOOLEAN : close(name, rel)
  \/ \E name \in KnownNames : release(name)
  \/ \E rel \in BOOLEAN : closeAll(rel)
  \/ \E arg \in Names \cup {"undefined"} : dbConnection(arg)
  \/ \E c \in ConnIds : DriverOpen(c)
  \/ \E c \in ConnIds : DriverConnectFail(c)
  \/ \E c \in ConnIds : ConnectTimeout(c)
  \/ \E c \in ConnIds : DriverDrop(c)
  \/ \E c \in ConnIds : DriverClosed(c)
  \/ \E c \in ConnIds : DriverCloseFail(c)
  \/ \E c \in ConnIds : DriverError(c)

Spec == Init /\ [][Next]_vars

\* connect, Database.connection and the events of a handle that nobody closes:
\* the runs in which no patch, close, release or closeAll is ever called.
NextConnectOnly ==
  \/ \E name \in KnownNames, cfg \in Configs : add(name, cfg)
  \/ \E name \in Names : connect(name)
  \/ \E arg \in Names \cup {"undefined"} : dbConnection(arg)
  \/ \E c \in ConnIds : DriverOpen(c)
  \/ \E c \in ConnIds : DriverConnectFail(c)
  \/ \E c \in ConnIds : ConnectTimeout(c)
  \/ \E c \in ConnIds : DriverDrop(c)
  \/ \E c \in ConnIds : DriverError(c)

ConnectSpec == Init /\ [][NextConnectOnly]_vars

\* The runs of an application that only connects and patches, with a driver
\* whose handle.close() never rejects.
NextConnectPatch ==
  \/ \E name \in KnownNames : connect(name)
  \/ \E name \in KnownNames, cfg \in Configs : patch(name, cfg)
  \/ \E c \in ConnIds : DriverOpen(c)
  \/ \E c \in ConnIds : DriverConnectFail(c)
  \/ \E c \in ConnIds : ConnectTimeout(c)
  \/ \E c \in ConnIds : DriverDrop(c)
  \/ \E c \in ConnIds : DriverClosed(c)

\* The driver finishes what it started: a handshake ends (open or failed) and
\* a close ends.  Nothing obliges an open link to drop.
DriverFairness ==
  \A c \in Slots :
    /\ WF_vars(DriverOpen(c) \/ DriverConnectFail(c))
    /\ WF_vars(DriverClosed(c))

LiveSpec == Init /\ [][NextConnectPatch]_vars /\ DriverFairness

\* Every configuration defineConfig accepts over the two names: a non-empty
\* set of entries, one of them the default connection.
AllDatabaseConfigs ==
  UNION { { [connection |-> p, connections |-> f] :
              p \in D, f \in [D -> {cfgUri, cfgBad}] } :
          D \in (SUBSET Names) \ {{}} }

InitAny == \E cfg \in AllDatabaseConfigs : InitWith(cfg)

\* The runs of an application that registers, connects and looks up, from any
\* configuration.
NextLazy ==
  \/ \E name \in Names, cfg \in Configs : add(name, cfg)
  \/ \E name \in Names : connect(name)
  \/ \E arg \in Names \cup {"undefined"} : dbConnection(arg)
  \/ \E c \in ConnIds : DriverOpen(c)
  \/ \E c \in ConnIds : DriverConnectFail(c)

LazySpec == InitAny /\ [][NextLazy]_vars

\* Every shape of a connection config: with or without uri, with or without a
\* connection block, the block with or without host and database.
AllConfigs ==
  { cfg \in [uri : BOOLEAN, connection : BOOLEAN, host : BOOLEAN, database : BOOLEAN] :
      ~cfg.connection => ~cfg.host /\ ~cfg.database }

InitAnyConfig ==
  \E cfg \in AllConfigs :
    InitWith([connection |-> "primary", connections |-> [n \in {"primary"} |-> cfg]])

\* The runs of an application that connects one name, whatever its config.
NextValidate ==
  \/ \E name \in KnownNames : connect(name)
  \/ \E arg \in {"undefined"} : dbConnection(arg)
  \/ \E c \in ConnIds : DriverOpen(c)
  \/ \E c \in ConnIds : DriverConnectFail(c)
  \/ \E c \in ConnIds : ConnectTimeout(c)
  \/ \E c \in ConnIds : DriverDrop(c)

ValidateSpec == InitAnyConfig /\ [][NextValidate]_vars

\* The runs of an application that connects and then calls connect() on the
\* Connection objects themselves.
NextConnection ==
  \/ \E name \in KnownNames : connect(name)
  \/ \E c \in ConnIds : connectionConnect(c)
  \/ \E c \in ConnIds : DriverOpen(c)
  \/ \E c \in ConnIds : DriverConnectFail(c)
  \/ \E c \in ConnIds : ConnectTimeout(c)
  \/ \E c \in ConnIds : DriverDrop(c)
  \/ \E c \in ConnIds : OldDriverOpen(c)
  \/ \E c \in ConnIds : OldDriverDown(c)

ConnectionSpec == Init /\ [][NextConnection]_vars

\* The runs of an application that uses its models while the connections are
\* connected, reconfigured and closed, with a driver whose handle.close()
\* never rejects.
NextModels ==
  \/ \E cls \in ModelClasses : getModel(cls)
  \/ clearCache
  \/ \E name \in KnownNames : connect(name)
  \/ \E name \in KnownNames, cfg \in {cfgUri, cfgBad} : patch(name, cfg)
  \/ \E c \in ConnIds : DriverOpen(c)
  \/ \E c \in ConnIds : DriverConnectFail(c)
  \/ \E c \in ConnIds : DriverClosed(c)

ModelSpec == Init /\ [][NextModels]_vars

\* ------------------------------------------------------------ defineConfig
\* A name every object inherits from Object.prototype.
ObjectPrototype == {"constructor"}

\* What a config file may pass as the default connection: nothing, the empty
\* string, a connection name, a name that is a member of Object.prototype.
ConnectionArgs == {"undefined", ""} \cup Names \cup ObjectPrototype

\* What a config file may pass to defineConfig: nothing, or an object with or
\* without a connections object, whose entries are connection configs.
ConfigArgs ==
  { [given |-> FALSE, connection |-> "undefined", hasConnections |-> FALSE,
     connections |-> [n \in {} |-> cfgUri]] }
  \cup { [given |-> TRUE, connection |-> p, hasConnections |-> FALSE,
         connections |-> [n \in {} |-> cfgUri]] : p \in ConnectionArgs }
  \cup UNION { { [given |-> TRUE, connection |-> p, hasConnections |-> TRUE,
                  connections |-> f] : p \in ConnectionArgs, f \in [D -> Configs] } :
               D \in SUBSET Names }

\* !config.connections[config.connection]: a property read finds the
\* object's own entries and what the object inherits.
HasProperty(obj, key) == key \in DOMAIN obj \/ key \in ObjectPrototype

\* What a defineConfig call does: throws error (about entry) or returns value.
Thrown(error, entry, cfg) == [error |-> error, entry |-> entry, value |-> cfg]

Returned(cfg) == [error |-> "", entry |-> "", value |-> cfg]

\* defineConfig of src/define_config.ts of the packaged library.
defineConfig(cfg) ==
  IF ~cfg.given THEN Thrown("Invalid config", "", cfg)
  ELSE IF ~cfg.hasConnections THEN Thrown("Missing connections", "", cfg)
  ELSE IF cfg.connection \in {"undefined", ""} THEN Thrown("Missing connection", "", cfg)
  ELSE IF ~HasProperty(cfg.connections, cfg.connection)
  THEN Thrown("Missing connections entry", cfg.connection, cfg)
  ELSE Returned(cfg)

\* defineConfig of src/define_config.ts at the root of the repository.
defineConfigHelper(cfg) == Returned(cfg)

\* The config file is evaluated: one of the two defineConfig functions is
\* applied to its argument.
defineConfigCall(op, r) ==
  /\ last.op = "config file"
  /\ last' = Step(op, r.entry, 0, IF r.error = "" THEN "returned" ELSE r.error)
  /\ config' = r.value
  /\ UNCHANGED <<connections, orphanConnections, conns, awaits,
                 primaryConnectionName, emitted, models>>

InitConfig ==
  /\ config \in ConfigArgs
  /\ primaryConnectionName = ""
  /\ connections = EmptyWorld.connections
  /\ orphanConnections = {}
  /\ conns = EmptyWorld.conns
  /\ awaits = {}
  /\ emitted = <<>>
  /\ models = NoModels
  /\ last = Step("config file", "", 0, "")

NextConfig ==
  \/ defineConfigCall("defineConfig", defineConfig(config))
  \/ defineConfigCall("defineConfig (root)", defineConfigHelper(config))

ConfigSpec == InitConfig /\ [][NextConfig]_vars

\* ------------------------------------------------------------------ claims
\* get(name)?.connection: the Connection the node refers to, 0 for none.
NodeConn(name) == IF has(name) THEN connections[name].connection ELSE 0

\* C1: connect(name) for a name that is not registered (never added, or
\* released) fails with "not registered", constructs no Connection, emits no
\* event and leaves the registry unchanged.
C1_ConnectUnregistered ==
  /\ \A name \in Names : ~has(name) =>
       /\ connectResult(Cur, name) = "not_registered"
       /\ connectW(Cur, name) = Cur
  /\ (last.op = "connect" /\ last.result = "not_registered") =>
       ~has(last.name) /\ emitted = <<>> /\ last.conn = 0

\* connect("primary") after the name was released.
C1_Witness ==
  /\ last.op = "connect" /\ last.result = "not_registered"
  /\ last.name = "primary" /\ ~has("primary")

\* C2: when the promise of connect(name) resolves, isConnected(name) is true
\* and the node holds the Connection that call created (no patch, close or
\* release in between: the formula is read under ConnectSpec).
C2_ResolvedMeansConnected ==
  (last.op = "driver connected" /\ last.result = "connect resolved") =>
    isConnected(last.name) /\ NodeConn(last.name) = last.conn

\* C3: connect(name) while isConnected(name) constructs no Connection, opens
\* no handle and leaves the node's state, config and connection unchanged.
C3_ConnectWhenConnected ==
  /\ \A name \in Names : isConnected(name) =>
       /\ connectResult(Cur, name) = "already_connected"
       /\ connectW(Cur, name) = Cur
  /\ (last.op = "connect" /\ last.result = "already_connected") =>
       isConnected(last.name) /\ emitted = <<>>

C3_Witness ==
  /\ last.op = "connect" /\ last.result = "already_connected"
  /\ isConnected(last.name)
  /\ conns[NodeConn(last.name)].handle = "connected"

C5_PatchConnected ==
  /\ \A name \in Names, cfg \in Configs : isConnected(name) =>
       LET w == patchW(Cur, name, cfg) IN
       /\ ~isConnectedW(w, name)
       /\ w.connections[name] =
            [config |-> cfg, state |-> "registered", connection |-> 0]
  /\ (last.op = "patch" /\ last.result = "was_connected") =>
       /\ ~isConnected(last.name)
       /\ connections[last.name].state = "registered"
       /\ connections[last.name].connection = 0

\* patch on a connected name with a config other than the one it had.
C5_Witness ==
  /\ last.op = "patch" /\ last.result = "was_connected"
  /\ connections[last.name].config = cfgHost
  /\ connections[last.name].state = "registered"
  /\ last.conn \in orphanConnections

\* C6: after patch on a connected name the orphaned Connection eventually
\* leaves the orphan set (with its disconnect event).
C6_OrphanEventuallyDisconnects ==
  \A c \in Slots :
    (last.op = "patch" /\ last.result = "was_connected" /\ last.conn = c)
      ~> (c \notin orphanConnections)

\* C6, the safety half: a step that takes a Connection out of the orphan set
\* emits exactly one disconnect event.
C6_OneEventOnLeaving ==
  [][\A c \in Slots : (c \in orphanConnections /\ c \notin orphanConnections') =>
       Len(SelectSeq(emitted', LAMBDA e : e[1] = "disconnect")) = 1]_vars

\* C7: the disconnected event of a Connection in the orphan set leaves the
\* node registered under its name untouched (state, config and connection
\* reference, also when that is a newer Connection), and takes the Connection
\* out of the orphan set.
C7_OrphanEventLeavesNode ==
  \A c \in orphanConnections :
    /\ onDisconnected(Cur, c).connections = connections
    /\ onDisconnected(Cur, c).orphanConnections = orphanConnections \ {c}

\* An orphan's disconnected event arrived while the node holds the newer
\* Connection of a connect issued after the patch: the node still holds it.
C7_Witness ==
  /\ last.op \in {"driver closed", "driver connect failed", "driver dropped"}
  /\ emitted = << <<"disconnect", last.name>> >>
  /\ has(last.name)
  /\ NodeConn(last.name) \notin {0, last.conn}
  /\ connections[last.name].state \in {"connecting", "open"}

\* C8: once patch has returned, the Connection that was current before it is
\* never current again: patch drops the reference, a Connection in the orphan
\* set is never a node's connection, the reference only ever changes to
\* nothing or to a Connection constructed in that very step, and
\* Database.connection returns the handle of the node's current Connection.
C8_NoStaleLookup ==
  [][\A name \in Names :
       LET old == NodeConn(name)
           new == IF name \in DOMAIN connections'
                  THEN connections'[name].connection ELSE 0
       IN /\ (last'.op = "patch" /\ last'.name = name /\ old # 0) =>
               (new = 0 /\ old \in orphanConnections')
          /\ new \notin orphanConnections'
          /\ (new # 0 /\ new # old) => conns[new].state = "free"
          /\ (last'.op = "Database.connection" /\ last'.name = name
                /\ last'.result = "handle") => last'.conn = new]_vars

\* After a patch, Database.connection returned a handle while the pre-patch
\* Connection was still in the orphan set: the handle of another Connection.
C8_Witness ==
  /\ last.op = "Database.connection" /\ last.result = "handle"
  /\ \E c \in orphanConnections :
       conns[c].name = last.name /\ c # last.conn /\ conns[c].handle # "none"

\* C9: isConnected(name) only if the node's current Connection has itself
\* connected and has not disconnected since.
C9_IsConnectedMeansLive ==
  \A name \in Names : isConnected(name) =>
    conns[NodeConn(name)].handle \in {"connected", "disconnecting"}

\* C10: when closeAll() resolves, no registered node holds a Connection whose
\* handle is open or still connecting.
C10_ClosedOnShutdown ==
  (\/ last.op \in {"closeAll", "closeAll+release"} /\ last.result = "resolved"
   \/ last.result = "closeAll resolved") =>
    \A name \in Names :
      NodeConn(name) # 0 => conns[NodeConn(name)].handle \notin {"connected", "connecting"}

\* The close(name, rel) call that awaits Connection c is still the only thing
\* between the node and its disconnect: no other call waits on the name, no
\* patch orphaned c, the node is closing and still holds c.
CloseUndisturbed(w, a) ==
  /\ a.kind = "close" /\ ~a.all
  /\ \A b \in w.awaits : b.name = a.name => b = a
  /\ a.conn \notin w.orphanConnections
  /\ hasW(w, a.name)
  /\ w.connections[a.name].connection = a.conn
  /\ w.connections[a.name].state = "closing"

\* What C11 promises of the world w in which close(name, rel) has resolved.
ClosedAsAsked(w, name, rel) ==
  IF rel THEN ~hasW(w, name)
  ELSE /\ hasW(w, name)
       /\ w.connections[name].state = "closed"
       /\ w.connections[name].connection = 0

\* C11: once close(name, true) on a connected name has resolved, get(name) is
\* undefined; once close(name, false) on a connected name has resolved, the
\* node is still there, closed and without a connection reference.  The first
\* conjunct is a close that resolves without waiting, the second one that
\* resolves when the handle's close (or failed handshake) is reported.
C11_CloseResult ==
  /\ \A name \in Names, rel \in BOOLEAN : isConnected(name) =>
       LET w == closeW(Cur, name, rel, FALSE) IN
       (w.awaits = awaits) => ClosedAsAsked(w, name, rel)
  /\ \A a \in awaits : CloseUndisturbed(Cur, a) =>
       LET c == a.conn
           w == IF conns[c].handle = "disconnecting" THEN DriverClosedW(Cur, c)
                ELSE IF conns[c].handle = "connecting" THEN DriverConnectFailW(Cur, c)
                ELSE Cur
       IN (w # Cur /\ \A b \in w.awaits : b.name # a.name \/ b.kind # "close") =>
            ClosedAsAsked(w, a.name, a.release)

\* C12: connect(name) calls for the same not-yet-connected name are not
\* deduplicated.  While a first connect is in flight (node connecting) the
\* isConnected check of a second call passes: it constructs a Connection of
\* its own and issues its own underlying connect attempt, and leaves the first
\* attempt running.
C12_ConnectNotDeduplicated ==
  \A name \in Names :
    (/\ has(name)
     /\ connections[name].state = "connecting"
     /\ validateConfig(connections[name].config)
     /\ FreeSlot(Cur) # 0) =>
      LET w == connectW(Cur, name)
          c == FreeSlot(Cur)
      IN /\ ~isConnected(name)
         /\ connectResult(Cur, name) = "pending"
         /\ w.connections[name].connection = c
         /\ w.conns[c].handle = "connecting" /\ w.conns[c].connect = "waiting"
         /\ \A d \in ConnIds : w.conns[d] = conns[d]

\* Two Connections of one name, each with its own connect attempt in flight.
C12_Witness ==
  /\ last.op = "connect" /\ last.result = "pending"
  /\ \E c, d \in ConnIds :
       /\ c # d /\ d = last.conn
       /\ conns[c].name = last.name /\ conns[d].name = last.name
       /\ conns[c].handle = "connecting" /\ conns[c].connect = "waiting"
       /\ conns[d].handle = "connecting" /\ conns[d].connect = "waiting"

\* C13: connections are lazy.  new Database registers every configured name
\* in state registered, without a Connection, and records the primary name;
\* add constructs no Connection and opens no handle; and a Connection comes
\* into existence for a name only in a step that is connect(name) or
\* Database.connection(name) for that very name.
C13_Lazy ==
  [][/\ (last.op = "new Database") =>
          /\ DOMAIN connections = DOMAIN config.connections
          /\ \A n \in DOMAIN connections :
               connections[n] = [config |-> config.connections[n],
                                 state |-> "registered", connection |-> 0]
          /\ primaryConnectionName = config.connection
          /\ ConnIds = {} /\ orphanConnections = {}
     /\ \A name \in Names, cfg \in Configs :
          /\ addW(Cur, name, cfg).conns = conns
          /\ hasW(addW(Cur, name, cfg), name)
          /\ addW(Cur, name, cfg).connections[name].connection = NodeConn(name)
     /\ \A c \in Slots : (conns[c].state = "free" /\ conns'[c].state # "free") =>
          /\ last'.op \in {"connect", "Database.connection"}
          /\ last'.name = conns'[c].name
          /\ last'.conn = c]_vars

\* From a configuration with both names, Database.connection("secondary")
\* made the only Connection there is; "primary" is still just registered.
C13_Witness ==
  /\ last.op = "Database.connection" /\ last.name = "secondary"
  /\ last.result = "handle"
  /\ ConnIds = {last.conn}
  /\ conns[last.conn].name = "secondary"
  /\ has("primary") /\ connections["primary"].state = "registered"
  /\ NodeConn("primary") = 0

\* C14: Database.connection(name) for a name that is not registered fails with
\* "not configured", starts no connect and leaves the registry (and everything
\* else) unchanged; called without an argument it resolves the primary
\* connection name.
C14_NotConfigured ==
  /\ \A name \in Names : ~has(name) =>
       /\ dbConnectionResult(Cur, name) = "not_configured"
       /\ dbConnectionW(Cur, name) = Cur
  /\ resolveName("undefined") = config.connection
  /\ \A name \in Names : resolveName(name) = name
  /\ (last.op = "Database.connection" /\ last.result = "not_configured") =>
       ~has(last.name) /\ emitted = <<>> /\ last.conn = 0

\* Database.connection for a name outside the configuration, while the
\* configured name (the primary one, "secondary") is connecting.
C14_Witness ==
  /\ last.op = "Database.connection" /\ last.result = "not_configured"
  /\ last.name = "primary" /\ ~has("primary")
  /\ primaryConnectionName = "secondary"
  /\ NodeConn("secondary") # 0

\* C15: add(name, config) is idempotent and the first registration wins: for
\* a registered name, whatever the node's state, add changes nothing; for a
\* new name it creates a node in state registered with that config and no
\* connection, and changes nothing else.
C15_AddIdempotent ==
  \A name \in Names, cfg \in Configs :
    LET w == addW(Cur, name, cfg) IN
    /\ has(name) => w = Cur
    /\ ~has(name) =>
         /\ w = [Cur EXCEPT !.connections = w.connections]
         /\ DOMAIN w.connections = DOMAIN connections \cup {name}
         /\ \A n \in DOMAIN connections : w.connections[n] = connections[n]
         /\ w.connections[name] =
              [config |-> cfg, state |-> "registered", connection |-> 0]
    /\ addW(w, name, cfg) = w

\* add on a node that is closing: the node is still closing, with its
\* Connection and the config it was registered with.
C15_Witness ==
  /\ last.op = "add" /\ has(last.name)
  /\ connections[last.name].state = "closing"
  /\ NodeConn(last.name) # 0
  /\ connections[last.name].config = cfgUri

\* add of a name that had been released: a fresh node.
C15_WitnessNew ==
  /\ last.op = "add" /\ has(last.name)
  /\ connections[last.name] = [config |-> cfgHost, state |-> "registered", connection |-> 0]

\* C16: a getModel() that finds its key in the cache returns the cached
\* object and compiles nothing; a getModel() that compiles had no entry under
\* its key, asks the library once and caches what the library hands back; an
\* entry stays as it is until clearCache(), which empties the cache.  So one
\* model at most is compiled per key between two clearCache() calls.
C16_ModelCache ==
  [][\A cls \in ModelClasses :
       LET k == cacheKey(cls)
           called == last'.op = "getModel" /\ last'.name = cls.name
       IN /\ called /\ k \in DOMAIN models.cache
               => /\ models'.returned = models.cache[k]
                  /\ models'.cache = models.cache
                  /\ models'.made = models.made
          /\ called /\ last'.result = "compiled"
               => /\ k \notin DOMAIN models.cache
                  /\ models'.returned \in LibraryModel(models, last'.conn, cls)
                  /\ models'.made <= models.made + 1
                  /\ DOMAIN models'.cache = DOMAIN models.cache \cup {k}
                  /\ models'.cache[k] = models'.returned
          /\ k \in DOMAIN models.cache /\ last'.op # "clearCache"
               => k \in DOMAIN models'.cache /\ models'.cache[k] = models.cache[k]
          /\ last'.op = "clearCache" => DOMAIN models'.cache = {}
    ]_vars

\* A class is compiled again after clearCache(), on the handle it was
\* compiled on before.
C16_Witness ==
  /\ last.op = "getModel" /\ last.name = "User" /\ last.result = "compiled"
  /\ models.made = 2
  /\ DOMAIN models.cache = {<<"primary", "User">>}
  /\ models.registry = {models.returned}

\* The second of two back-to-back getModel() calls.
C16_WitnessCached ==
  /\ last.op = "getModel" /\ last.name = "User" /\ last.result = "cached"
  /\ models.returned = models.cache[<<"primary", "User">>]

\* C16 as stated: every getModel() that compiles returns an object distinct
\* from every model compiled before.
C16_DistinctAfterClear ==
  [][\A cls \in ModelClasses :
       last'.op = "getModel" /\ last'.name = cls.name /\ last'.result = "compiled"
         => models'.returned.id = models.made + 1
    ]_vars

\* What C17 asks of defineConfig for argument cfg.
C17_Expected(cfg) ==
  IF ~cfg.given \/ ~cfg.hasConnections \/ cfg.connection \in {"undefined", ""}
  THEN "error"
  ELSE IF cfg.connection \notin DOMAIN cfg.connections THEN "missing entry"
  ELSE "returned"

\* C17: defineConfig throws when connections or connection is missing, throws
\* an error naming the entry when the default connection has no entry in
\* connections, and otherwise returns its argument.
C17_DefineConfig ==
  last.op \in {"defineConfig", "defineConfig (root)"} =>
    /\ C17_Expected(config) = "error" => last.result \notin {"returned", ""}
    /\ C17_Expected(config) = "missing entry"
         => last.result = "Missing connections entry" /\ last.name = config.connection
    /\ C17_Expected(config) = "returned" => last.result = "returned"
    /\ defineConfig(config).error = "" => defineConfig(config).value = config
    /\ defineConfigHelper(config).value = config

\* The validating defineConfig does as C17 says for every default connection
\* that is not the name of a member of Object.prototype.
C17_OwnNames ==
  last.op = "defineConfig" /\ config.connection \notin ObjectPrototype =>
    /\ C17_Expected(config) = "error" => last.result \notin {"returned", ""}
    /\ C17_Expected(config) = "missing entry"
         => last.result = "Missing connections entry" /\ last.name = config.connection
    /\ C17_Expected(config) = "returned" => last.result = "returned"

C17_WitnessOwnNames ==
  /\ last.op = "defineConfig" /\ last.result = "Missing connections entry"
  /\ last.name = "secondary" /\ DOMAIN config.connections = {"primary"}

\* C18: when the handle of a Connection whose connect() timed out opens
\* later, and no other connect(name) replaced that Connection in its node,
\* isConnected(name) is still false and the node is not open.
C18_TimeoutStaysClosed ==
  /\ last.op = "driver connected" /\ last.result = ""
  /\ NodeConn(last.name) = last.conn
  => ~isConnected(last.name) /\ connections[last.name].state # "open"

\* Only patch's fire-and-forget calls wait for Connection c's disconnect().
OnlyPatchWaits(w, c) == \A a \in WaitersOn(w, c) : a.kind = "patch"

\* C19: patch(name, config) of a registered name returns with the node
\* registered, holding the new config and no connection, its Connection
\* orphaned; and when the orphan's disconnect() settles, resolved or
\* rejected, the registry stays as patch left it, the rejection emits
\* nothing and fails no other call.
C19_PatchIgnoresOrphanFailure ==
  /\ \A name \in KnownNames, cfg \in Configs :
       has(name) =>
         LET w1 == patchW(Cur, name, cfg) IN
         /\ w1.connections[name] = [config |-> cfg, state |-> "registered", connection |-> 0]
         /\ NodeConn(name) # 0 => NodeConn(name) \in w1.orphanConnections
  /\ \A a \in awaits :
       a.kind = "patch" /\ OnlyPatchWaits(Cur, a.conn)
         /\ conns[a.conn].handle = "disconnecting" =>
         /\ DisconnectRejectedW(Cur, a.conn).connections = connections
         /\ DisconnectRejectedW(Cur, a.conn).orphanConnections = orphanConnections
         /\ DisconnectRejectedW(Cur, a.conn).emitted = <<>>
         /\ DisconnectRejectedW(Cur, a.conn).awaits = awaits \ WaitersOn(Cur, a.conn)
         /\ DriverClosedW(Cur, a.conn).connections = connections

\* The disconnect of an orphan has just failed and its node is as patch
\* left it.
C19_Witness ==
  /\ last.op = "driver close failed"
  /\ last.conn \in orphanConnections
  /\ WaitersOn(Cur, last.conn) = {}
  /\ has(last.name)
  /\ connections[last.name].state = "registered"
  /\ NodeConn(last.name) = 0

\* C20: an 'error' event of Connection c makes the manager emit one error
\* event with c's name and changes no node, no Connection, no orphan-set
\* membership and no pending call.
C20_ErrorChangesNothing ==
  \A c \in ConnIds :
    conns[c].handle \in {"connecting", "connected", "disconnecting"} =>
      /\ handleError(Cur, c).emitted = << <<"error", conns[c].name>> >>
      /\ handleError(Cur, c).connections = connections
      /\ handleError(Cur, c).orphanConnections = orphanConnections
      /\ handleError(Cur, c).conns = conns
      /\ handleError(Cur, c).awaits = awaits

\* The open Connection of a node has just reported an error.
C20_Witness ==
  /\ last.op = "driver error"
  /\ emitted = << <<"error", last.name>> >>
  /\ NodeConn(last.name) = last.conn
  /\ connections[last.name].state = "open"

\* C21: the Connection constructor throws exactly when the config has no uri
\* and no connection block with both host and database; connect(name) for
\* such a config rejects and constructs no Connection and no handle.
C21_InvalidConfig ==
  \A name \in DOMAIN connections :
    LET cfg == connections[name].config IN
    /\ ~validateConfig(cfg)
         <=> ~cfg.uri /\ ~(cfg.connection /\ cfg.host /\ cfg.database)
    /\ ~validateConfig(cfg) =>
         /\ connectResult(Cur, name) = "invalid_config"
         /\ connectW(Cur, name).conns = conns
         /\ \A c \in Slots : conns[c].name # name

\* connect(name) was rejected for a connection block without a database.
C21_Witness ==
  /\ last.op = "connect" /\ last.result = "invalid_config"
  /\ connections[last.name].config =
       [uri |-> FALSE, connection |-> TRUE, host |-> TRUE, database |-> FALSE]
  /\ \A c \in Slots : conns[c].state = "free"

\* C22: connect() on a Connection whose state is connected or connecting
\* changes nothing, and a Connection never has two handles up at once.
C22_OneHandle ==
  \A c \in ConnIds :
    /\ conns[c].state \in {"connected", "connecting"}
         => Connection_connect(conns[c]) = conns[c]
    /\ ~(HandleUp(conns[c].handle) /\ HandleUp(conns[c].old))

\* connect() on a Connection whose state is connected or connecting changes
\* nothing.
C22_NoopWhenConnecting ==
  \A c \in ConnIds :
    conns[c].state \in {"connected", "connecting"}
      => Connection_connect(conns[c]) = conns[c]

C22_WitnessNoop ==
  /\ last.op = "Connection.connect" /\ last.result = "noop"
  /\ conns[last.conn].state = "connecting"

\* C23: disconnect() on a Connection without a handle or in state
\* disconnected changes nothing; otherwise the state is disconnecting until
\* handle.close() settles: resolved, the handle is cleared and the state is
\* disconnected; rejected, the callers are rejected without running on and
\* the Connection keeps its handle.
C23_Disconnect ==
  \A c \in ConnIds :
    /\ conns[c].handle = "none" \/ conns[c].state = "disconnected"
         => Connection_disconnect(conns[c]) = conns[c]
    /\ ~(conns[c].handle = "none" \/ conns[c].state = "disconnected")
         => Connection_disconnect(conns[c]).state = "disconnecting"
    /\ WaitersOn(Cur, c) # {} =>
         /\ HasHandle(conns[c])
         /\ DisconnectResolvedW(Cur, c).conns[c].handle = "none"
         /\ DisconnectResolvedW(Cur, c).conns[c].state = "disconnected"
         /\ DisconnectRejectedW(Cur, c).conns[c] = conns[c]
         /\ DisconnectRejectedW(Cur, c).connections = connections
         /\ WaitersOn(DisconnectRejectedW(Cur, c), c) = {}

\* handle.close() has just rejected and the Connection keeps its handle.
C23_Witness ==
  /\ last.op = "driver close failed"
  /\ HasHandle(conns[last.conn])
  /\ conns[last.conn].state = "disconnecting"

\* C24: when the open Connection of an open node, neither orphaned nor being
\* closed, loses its link, the node loses its connection reference and is
\* closed, isConnected(name) is false and exactly one disconnect event with
\* that name is emitted.
C24_DropClosesNode ==
  \A c \in ConnIds :
    LET name == conns[c].name IN
    /\ conns[c].handle = "connected"
    /\ NodeConn(name) = c /\ connections[name].state = "open"
    /\ c \notin orphanConnections /\ WaitersOn(Cur, c) = {}
    => /\ DriverDropW(Cur, c).connections[name].connection = 0
       /\ DriverDropW(Cur, c).connections[name].state = "closed"
       /\ ~isConnectedW(DriverDropW(Cur, c), name)
       /\ DriverDropW(Cur, c).emitted = << <<"disconnect", name>> >>

\* The only Connection there was has just dropped.
C24_Witness ==
  /\ last.op = "driver dropped"
  /\ has(last.name) /\ connections[last.name].state = "closed"
  /\ NodeConn(last.name) = 0
  /\ emitted = << <<"disconnect", last.name>> >>
  /\ orphanConnections = {}
  /\ \A d \in Slots : conns[d].state = "free"

\* C25: on a 'connected' event of Connection c, if a node with c's name is
\* registered the manager emits one connect event with that name and marks
\* that node open, changing nothing else; if no such node is registered it
\* emits nothing and leaves the registry as it is.
C25_ConnectedEvent ==
  \A c \in ConnIds :
    LET name == conns[c].name
        w1 == handleConnect(Cur, c)
    IN /\ has(name) =>
            /\ w1.emitted = << <<"connect", name>> >>
            /\ w1.connections = [connections EXCEPT ![name].state = "open"]
       /\ ~has(name) => w1.emitted = <<>> /\ w1.connections = connections
       /\ w1.orphanConnections = orphanConnections
       /\ w1.conns = conns

\* The handle of a Connection opened after its name was released.
C25_Witness ==
  /\ last.op = "driver connected"
  /\ ~has(last.name)
  /\ emitted = <<>>
  /\ conns[last.conn].handle = "connected"

\* C26: a Connection that patch has put in the orphan set, whatever state it
\* was in, eventually leaves the orphan set.
C26_OrphansDrain ==
  \A c \in Slots :
    (last.op = "patch" /\ last.conn = c /\ c \in orphanConnections)
      ~> (c \notin orphanConnections)

\* C27: right after connect(name) was rejected (handshake failed, timer
\* fired, or the config is invalid), isConnected(name) is false and another
\* connect(name) is not a no-op: it constructs a Connection and starts a new
\* attempt (for an invalid config, it runs the constructor again).
C27_RejectedIsRetryable ==
  /\ has(last.name)
  /\ \/ last.result = "connect rejected"
     \/ last.op = "connect" /\ last.result = "invalid_config"
  => /\ ~isConnected(last.name)
     /\ connectResult(Cur, last.name) =
          IF last.result = "invalid_config" THEN "invalid_config" ELSE "pending"

\* C27 for an attempt that was the only one: no other Connection exists when
\* the rejection arrives.
C27_SingleAttempt ==
  /\ has(last.name)
  /\ last.result = "connect rejected"
  /\ \A d \in Slots \ {last.conn} : conns[d].state = "free"
  => /\ ~isConnected(last.name)
     /\ connectResult(Cur, last.name) = "pending"

C27_WitnessSingleAttempt ==
  /\ last.op = "connect timer" /\ last.result = "connect rejected"
  /\ \A d \in Slots \ {last.conn} : conns[d].state = "free"
  /\ NodeConn(last.name) = last.conn

\* A release of name (by release, close or closeAll) is still awaiting a
\* disconnect in world w.
ReleasePending(w, name) ==
  \E b \in w.awaits : b.kind = "close" /\ b.release /\ b.name = name

\* The worlds after the driver reports on the handle of Connection c: closed,
\* or failed while connecting.
Reports(c) ==
  IF conns[c].handle = "disconnecting" THEN {DriverClosedW(Cur, c)}
  ELSE IF conns[c].handle = "connecting" THEN {DriverConnectFailW(Cur, c)}
  ELSE {}

\* C28: when release(name) resolves, at once or after the disconnect it
\* waited for, has(name) is false, whatever the node was; and when
\* closeAll(true) resolves, every name it was closing has been removed.
C28_ReleaseRemoves ==
  /\ \A name \in Names :
       ~ReleasePending(releaseW(Cur, name, FALSE), name)
         => ~hasW(releaseW(Cur, name, FALSE), name)
  /\ \A name \in Names :
       ~ReleasePending(closeW(Cur, name, TRUE, FALSE), name)
         => ~hasW(closeW(Cur, name, TRUE, FALSE), name)
  /\ ~closeAllRunning /\ ~closeAllPending(closeAllW(Cur, NameOrder, TRUE))
       => \A name \in DOMAIN connections :
            ~hasW(closeAllW(Cur, NameOrder, TRUE), name)
  /\ \A a \in awaits : a.kind = "close" /\ a.release =>
       \A w \in Reports(a.conn) :
         ~ReleasePending(w, a.name) => ~hasW(w, a.name)

\* release(name) of an open node has resolved when its handle closed.
C28_Witness ==
  /\ last.op = "driver closed"
  /\ ~has(last.name)
  /\ awaits = {}
  /\ emitted = << <<"disconnect", last.name>> >>

DriverSteps(c) ==
  (IF conns[c].handle = "connecting"
   THEN {DriverOpenW(Cur, c), DriverConnectFailW(Cur, c)} ELSE {})
  \cup (IF conns[c].connect = "waiting" THEN {ConnectTimeoutW(Cur, c)} ELSE {})
  \cup (IF conns[c].handle = "connected" THEN {DriverDropW(Cur, c)} ELSE {})
  \cup (IF conns[c].handle = "disconnecting"
        THEN {DriverClosedW(Cur, c), DisconnectRejectedW(Cur, c)} ELSE {})
  \cup {handleError(Cur, c), onConnected(Cur, c), onDisconnected(Cur, c)}

\* C30: add, connect, patch, close(name, false), closeAll(false) and
\* Database.connection keep every registered name registered; so do the
\* handlers of the connected, disconnected and error events; and a driver
\* report removes a name only by letting a pending release of it run on.
C30_OnlyReleaseRemoves ==
  \A name \in DOMAIN connections :
    /\ \A other \in Names, cfg \in Configs :
         /\ hasW(addW(Cur, other, cfg), name)
         /\ hasW(patchW(Cur, other, cfg), name)
    /\ \A other \in Names :
         /\ hasW(connectW(Cur, other), name)
         /\ hasW(dbConnectionW(Cur, other), name)
         /\ hasW(closeW(Cur, other, FALSE, FALSE), name)
    /\ hasW(closeAllW(Cur, NameOrder, FALSE), name)
    /\ \A c \in ConnIds : \A w \in DriverSteps(c) :
         ~hasW(w, name) => ReleasePending(Cur, name)

\* A failed handshake closed the node and left it registered.
C30_Witness ==
  /\ last.op = "driver connect failed"
  /\ has(last.name) /\ connections[last.name].state = "closed"
  /\ NodeConn(last.name) = 0

\* C31: patch(name, config) for a name that is not registered does what
\* add(name, config) does: a new node, registered, with that config and no
\* connection reference; nothing else changes, the orphan set included.
C31_PatchUnknownIsAdd ==
  \A name \in Names, cfg \in Configs :
    ~has(name) =>
      /\ patchW(Cur, name, cfg) = addW(Cur, name, cfg)
      /\ patchW(Cur, name, cfg).connections[name] =
           [config |-> cfg, state |-> "registered", connection |-> 0]
      /\ \A other \in DOMAIN connections :
           patchW(Cur, name, cfg).connections[other] = connections[other]
      /\ patchW(Cur, name, cfg).orphanConnections = orphanConnections
      /\ patchW(Cur, name, cfg).conns = conns
      /\ patchW(Cur, name, cfg).awaits = awaits
      /\ patchW(Cur, name, cfg).emitted = <<>>

\* patch has just registered a name that had been released.
C31_Witness ==
  /\ last.op = "patch" /\ last.result = "added"
  /\ connections[last.name].state = "registered"
  /\ NodeConn(last.name) = 0

\* C32: a getModel() that fails (no schema, connection not configured, not
\* ready or not established) returns nothing and leaves the model cache as
\* it was; and a getModel() of a class with a schema whose key is not cached
\* and whose connection hands out a handle compiles the model and caches it
\* under its key, whatever failed before.
C32_FailedGetModel ==
  [][\A cls \in ModelClasses :
       last'.op = "getModel" /\ last'.name = cls.name =>
         /\ last'.result \notin {"cached", "compiled"}
              => /\ models'.cache = models.cache
                 /\ models'.made = models.made
                 /\ models'.returned = NoModel
                 /\ last'.result \in {"no_schema", "not_configured", "not_ready",
                                      "not_established"}
         /\ (/\ cls.schema
             /\ cacheKey(cls) \notin DOMAIN models.cache
             /\ dbConnectionResult(Cur, connectionNameOf(cls)) = "handle")
              => /\ last'.result = "compiled"
                 /\ cacheKey(cls) \in DOMAIN models'.cache
                 /\ models'.cache[cacheKey(cls)] = models'.returned
    ]_vars

\* getModel() has just failed because its connection is not ready, and the
\* cache has no entry for its key.
C32_Witness ==
  /\ last.op = "getModel" /\ last.name = "User" /\ last.result = "not_ready"
  /\ <<"primary", "User">> \notin DOMAIN models.cache
  /\ models.returned = NoModel

\* getModel() compiles after the config that made it fail was patched.
C32_WitnessRetry ==
  /\ last.op = "getModel" /\ last.name = "User" /\ last.result = "compiled"
  /\ connections["primary"].config = cfgUri
  /\ models.made = 1
  /\ \E c \in orphanConnections : conns[c].name = "primary"

\* C33: no Connection is ever untracked: in every reachable state each
\* Connection whose handle is open or connecting is the current connection
\* of the node of its name or a member of the orphan set.
C33_NoUntrackedConnection ==
  \A c \in ConnIds :
    conns[c].handle \in {"connecting", "connected"} =>
      NodeConn(conns[c].name) = c \/ c \in orphanConnections

\* C34: a 'disconnected' event from a Connection that is neither the current
\* connection of its node nor an orphan leaves the node as it is: the node's
\* connection reference is not cleared and its state does not change.
C34_StaleDisconnectIgnored ==
  \A c \in ConnIds :
    LET name == conns[c].name
        after == onDisconnected([Cur EXCEPT !.conns[c].handle = "disconnected"], c)
    IN
    (/\ HandleUp(conns[c].handle)
     /\ has(name)
     /\ NodeConn(name) # c
     /\ c \notin orphanConnections)
      => /\ after.connections[name].connection = connections[name].connection
         /\ after.connections[name].state = connections[name].state

\* C35: in every reachable state a node holds a connection reference exactly
\* when its state is connecting, open or closing: a registered or closed node
\* holds none, an open or closing node always holds one.
C35_ReferenceIffActive ==
  \A name \in Names : has(name) =>
    (connections[name].connection # 0
       <=> connections[name].state \in {"connecting", "open", "closing"})

\* C36: the model getModel() returns is bound to the handle that
\* Database.connection(connectionName) hands out at that moment: the handle
\* of the current Connection of the node of that name, also after a patch, a
\* close and reconnect, or a replacement of the Connection.
C36_ModelOnCurrentHandle ==
  \A cls \in ModelClasses :
    (/\ last.op = "getModel" /\ last.name = cls.name
     /\ last.result \in {"cached", "compiled"})
      => /\ has(connectionNameOf(cls))
         /\ models.returned.conn = connections[connectionNameOf(cls)].connection

====
